---- MODULE Spec2Model ----
(***************************************************************************)
(* CertificateApp (src/src/CertificateApp.js): User, Certificate and       *)
(* BatchProcessor, over the Drive, Slides, Spreadsheet and Mail services.  *)
(*                                                                         *)
(* JavaScript values are records [t, s, n]: t is the typeof tag, s the     *)
(* characters of a string, n the value of a number or boolean.  A string   *)
(* is a sequence of characters; a long fixed literal of the source is kept *)
(* as one element.                                                         *)
(***************************************************************************)
EXTENDS Integers, Sequences, FiniteSets, TLC

VARIABLES
    BASE_PRESENTATION_ID,        \* module state, CertificateApp.js:7
    DESTINATION_FOLDER_ID,       \* CertificateApp.js:8
    PLACEHOLDER,                 \* CertificateApp.js:9
    files,                       \* Drive: the i-th file has id FileId(i)
    grid,                        \* the sheet: rows of SheetMaxColumns cells
    user,                        \* two standalone User objects
    certificate,                 \* a standalone Certificate object
    _users,                      \* BatchProcessor._users
    _spreadsheetID,
    _sheetName,
    _namesColumnHeader,
    _emailsColumnHeader,
    _certificatesIDColumnHeader,
    _deletePresentations,
    op,                          \* the handler that ran last, and its argument
    err,                         \* how it ended: "ok", "TypeError", "Exception"
    trace                        \* the service calls it made, in order

vars == <<BASE_PRESENTATION_ID, DESTINATION_FOLDER_ID, PLACEHOLDER, files, grid,
          user, certificate, _users, _spreadsheetID, _sheetName,
          _namesColumnHeader, _emailsColumnHeader, _certificatesIDColumnHeader,
          _deletePresentations, op, err, trace>>

moduleVars == <<BASE_PRESENTATION_ID, DESTINATION_FOLDER_ID, PLACEHOLDER>>
configVars == <<_spreadsheetID, _sheetName, _namesColumnHeader,
                _emailsColumnHeader, _certificatesIDColumnHeader,
                _deletePresentations>>

----------------------------------------------------------------------------
(* JavaScript values *)

Str(chars) == [t |-> "string", s |-> chars, n |-> 0]
Num(k) == [t |-> "number", s |-> <<>>, n |-> k]
Bool(b) == [t |-> "boolean", s |-> <<>>, n |-> IF b THEN 1 ELSE 0]
Undefined == [t |-> "undefined", s |-> <<>>, n |-> 0]
EmptyString == Str(<<>>)

\* ToBoolean: "", 0, false and undefined are falsy.
Truthy(v) ==
    CASE v.t = "string" -> v.s # <<>>
      [] v.t = "number" -> v.n # 0
      [] v.t = "boolean" -> v.n = 1
      [] OTHER -> FALSE

\* a || b
OrElse(a, b) == IF Truthy(a) THEN a ELSE b

Digits == <<"0", "1", "2", "3", "4", "5", "6", "7", "8", "9">>

RECURSIVE NatToChars(_)
NatToChars(k) ==
    IF k < 10 THEN <<Digits[k + 1]>>
    ELSE NatToChars(k \div 10) \o <<Digits[(k % 10) + 1]>>

\* String(v), as a template literal interpolates it.
ToChars(v) ==
    CASE v.t = "string" -> v.s
      [] v.t = "number" -> NatToChars(v.n)
      [] v.t = "boolean" -> IF v.n = 1 THEN <<"true">> ELSE <<"false">>
      [] OTHER -> <<"undefined">>

\* v.toString() throws a TypeError on undefined.
CanToString(v) == v.t # "undefined"

\* The characters String.prototype.trim strips: WhiteSpace and LineTerminator
\* of ECMAScript. Listed are the space, tab, line feed, carriage return, form
\* feed, vertical tab (U+000B), no-break space (U+00A0), ogham space (U+1680)
\* and byte order mark (U+FEFF); the other space separators (U+2000..U+200A,
\* U+2028, U+2029, U+202F, U+205F, U+3000) cannot be written in a string here
\* and no cell of the model holds them.
WhiteSpace ==
    {" ", "\t", "\n", "\r", "\f", "", " ", " ", "﻿"}

IsSpace(c) == c \in WhiteSpace

RECURSIVE TrimStart(_)
TrimStart(s) ==
    IF s # <<>> /\ IsSpace(Head(s)) THEN TrimStart(Tail(s)) ELSE s

RECURSIVE TrimEnd(_)
TrimEnd(s) ==
    IF s # <<>> /\ IsSpace(s[Len(s)]) THEN TrimEnd(SubSeq(s, 1, Len(s) - 1))
    ELSE s

\* String.prototype.trim
Trim(s) == TrimEnd(TrimStart(s))

\* v.toString().trim()
ToStringTrim(v) == Str(Trim(ToChars(v)))

\* Array.prototype.indexOf (strict equality, first match), 0-based, -1 if none.
IndexOf(arr, v) ==
    IF \E i \in 1..Len(arr) : arr[i] = v
    THEN (CHOOSE i \in 1..Len(arr) :
             arr[i] = v /\ \A j \in 1..(i - 1) : arr[j] # v) - 1
    ELSE -1

\* One service call: its name, its arguments (JavaScript values), what it
\* returned, and whether it threw instead of returning.
Call(name, args, ret) ==
    [call |-> name, args |-> args, ret |-> ret, threw |-> FALSE]
Throw(name, args) ==
    [call |-> name, args |-> args, ret |-> Undefined, threw |-> TRUE]

CallsOf(tr, name) == SelectSeq(tr, LAMBDA e : e.call = name)

\* The outcome of a handler or of a part of one.
Outcome(e, tr) == [err |-> e, trace |-> tr]

\* obj?.key : undefined when the object itself is null or undefined.
Prop(obj, key) == IF obj.defined THEN obj[key] ELSE Undefined

----------------------------------------------------------------------------
(* Drive *)

FileId(i) == <<"F">> \o NatToChars(i)

File(name, parent, mime, content) ==
    [name |-> name, parent |-> parent, mime |-> mime, content |-> content,
     trashed |-> FALSE]

HasFile(fs, id) ==
    id.t = "string" /\ \E i \in 1..Len(fs) : FileId(i) = id.s

FileIndex(fs, id) == CHOOSE i \in 1..Len(fs) : FileId(i) = id.s

\* DriveApp.getFileById finds files, DriveApp.getFolderById folders, trashed
\* or not; either throws on an id that names nothing of its kind.
IsFileId(fs, id) == HasFile(fs, id) /\ fs[FileIndex(fs, id)].mime # "folder"
IsFolderId(fs, id) == HasFile(fs, id) /\ fs[FileIndex(fs, id)].mime = "folder"

----------------------------------------------------------------------------
(* showFeedback, CertificateApp.js:417-420 *)

ShowFeedback(message, fault) ==
    LET log == Call("console.log", <<message>>, Undefined)
    IN  IF fault = "toast"
        THEN Outcome("Exception", <<log, Throw("toast", <<message>>)>>)
        ELSE Outcome("ok", <<log, Call("toast", <<message>>, Undefined)>>)

----------------------------------------------------------------------------
(* class User, CertificateApp.js:15-125 *)

NewUser ==
    [name |-> EmptyString, email |-> EmptyString, certificateID |-> EmptyString]

SetName(u, name) == [u EXCEPT !.name = name]
SetEmail(u, email) == [u EXCEPT !.email = email]
SetCertificateID(u, certificateID) == [u EXCEPT !.certificateID = certificateID]

ToJSON(u) ==
    [defined |-> TRUE, name |-> u.name, email |-> u.email,
     certificateID |-> u.certificateID]

FromJSONWithoutDefault(u, jsonObject) ==
    [name |-> Prop(jsonObject, "name"),
     email |-> Prop(jsonObject, "email"),
     certificateID |-> Prop(jsonObject, "certificateID")]

FromJSON(u, jsonObject) ==
    [name |-> Prop(jsonObject, "name"),
     email |-> Prop(jsonObject, "email"),
     certificateID |-> OrElse(Prop(jsonObject, "certificateID"), EmptyString)]

DefaultSubject == Str(<<"Certificado de Participacao no Treinamento">>)
DefaultHtmlBody(u) ==
    Str(<<"<div dir=ltr>Oi ">> \o ToChars(u.name)
        \o <<"!<br><br>Agradecemos ... certificado de participacao.</div>">>)

\* The message object handed to MailApp.sendEmail, without its attachment.
Message(u, params) ==
    <<OrElse(Prop(params, "senderName"), EmptyString),
      u.email,
      OrElse(Prop(params, "subject"), DefaultSubject),
      OrElse(Prop(params, "htmlBody"), DefaultHtmlBody(u))>>

HasNoCertificateNever(u) == FALSE

\* if(!_certificateID) return;
HasNoCertificate(u) == ~Truthy(u.certificateID)

\* fault names the service call that fails in this run, if any.
SendEmail(u, params, fs, fault) ==
    IF HasNoCertificate(u) THEN Outcome("ok", <<>>)
    ELSE
    LET id == u.certificateID
        msg == Message(u, params) \o <<id>>
        sent == Str(<<"Email to ">> \o ToChars(u.name)
                    \o <<" successfully sent">>)
        fb == ShowFeedback(sent, fault)
    IN  IF ~IsFileId(fs, id) \/ fault = "DriveApp.getFileById"
        THEN Outcome("Exception", <<Throw("DriveApp.getFileById", <<id>>)>>)
        ELSE IF fault = "MailApp.sendEmail"
        THEN Outcome("Exception", <<Call("DriveApp.getFileById", <<id>>, id),
                                    Throw("MailApp.sendEmail", msg)>>)
        ELSE Outcome(fb.err, <<Call("DriveApp.getFileById", <<id>>, id),
                               Call("MailApp.sendEmail", msg, Undefined)>>
                             \o fb.trace)

----------------------------------------------------------------------------
(* class Certificate, CertificateApp.js:131-211 *)

NewCertificate ==
    [placeholderReplacement |-> EmptyString, certificateName |-> EmptyString,
     deletePresentation |-> FALSE, certificateID |-> EmptyString]

SetPlaceholderReplacement(c, text) == [c EXCEPT !.placeholderReplacement = text]
SetCertificateName(c, name) == [c EXCEPT !.certificateName = name]
DeletePresentation(c, flag) == [c EXCEPT !.deletePresentation = flag]
GetCertificateID(c) == c.certificateID

UpperCase == <<"A", "B", "C", "D", "E", "F", "G", "H", "I", "J", "K", "L", "M", "N",
              "O", "P", "Q", "R", "S", "T", "U", "V", "W", "X", "Y", "Z">>
LowerCase == <<"a", "b", "c", "d", "e", "f", "g", "h", "i", "j", "k", "l", "m", "n",
              "o", "p", "q", "r", "s", "t", "u", "v", "w", "x", "y", "z">>

\* Slides matches the placeholder without regard to case (matchCase: false):
\* both the text and the placeholder are compared with their letters folded.
FoldCase(ch) ==
    IF \E i \in 1..Len(UpperCase) : UpperCase[i] = ch
    THEN LowerCase[CHOOSE i \in 1..Len(UpperCase) : UpperCase[i] = ch]
    ELSE ch

FoldAll(s) == [i \in 1..Len(s) |-> FoldCase(s[i])]

\* replaceAllText: every occurrence of containsText in the text, from the
\* left and without overlap, becomes replaceText.
RECURSIVE ReplaceAllText(_, _, _)
ReplaceAllText(content, containsText, replaceText) ==
    LET n == Len(containsText)
    IN  IF content = <<>> THEN <<>>
        ELSE IF /\ n > 0
                /\ Len(content) >= n
                /\ FoldAll(SubSeq(content, 1, n)) = FoldAll(containsText)
             THEN replaceText
                  \o ReplaceAllText(SubSeq(content, n + 1, Len(content)),
                                    containsText, replaceText)
             ELSE <<Head(content)>>
                  \o ReplaceAllText(Tail(content), containsText, replaceText)

SetTrashedAlways(file, flag) == [file EXCEPT !.trashed = TRUE]

\* File.setTrashed, CertificateApp.js:206
SetTrashed(file, flag) == [file EXCEPT !.trashed = flag]

\* What createCertificate leaves behind: how it ended, the calls it made, the
\* Drive and the Certificate object.
Generated(e, tr, fs, c) == [err |-> e, trace |-> tr, files |-> fs, certificate |-> c]

CreateCertificate(c, fs, fault) ==
    LET folderId == DESTINATION_FOLDER_ID
        baseId == BASE_PRESENTATION_ID
        getFolder == Call("DriveApp.getFolderById", <<folderId>>, folderId)
        getFile == Call("DriveApp.getFileById", <<baseId>>, baseId)
    IN
    IF ~IsFolderId(fs, folderId) \/ fault = "DriveApp.getFolderById"
    THEN Generated("Exception", <<Throw("DriveApp.getFolderById", <<folderId>>)>>, fs, c)
    ELSE IF ~IsFileId(fs, baseId) \/ fault = "DriveApp.getFileById"
    THEN Generated("Exception", <<getFolder, Throw("DriveApp.getFileById", <<baseId>>)>>, fs, c)
    ELSE IF fault = "makeCopy"
    THEN Generated("Exception", <<getFolder, getFile, Throw("makeCopy", <<baseId>>)>>, fs, c)
    ELSE
    LET base == fs[FileIndex(fs, baseId)]
        presentationBlobID == Str(FileId(Len(fs) + 1))
        copy == File(<<"Copy of ">> \o base.name, base.parent, base.mime, base.content)
        moved == [copy EXCEPT !.parent = folderId.s]
        named == [moved EXCEPT !.name = ToChars(c.certificateName)]
        updated == [named EXCEPT !.content =
                       ReplaceAllText(@, PLACEHOLDER.s, ToChars(c.placeholderReplacement))]
        t1 == <<getFolder, getFile,
                Call("makeCopy", <<baseId>>, presentationBlobID),
                Call("moveTo", <<presentationBlobID, folderId>>, Undefined),
                Call("setName", <<presentationBlobID, c.certificateName>>, Undefined)>>
        request == <<c.placeholderReplacement, PLACEHOLDER, Bool(FALSE), presentationBlobID>>
    IN
    IF fault = "Slides.batchUpdate"
    THEN Generated("Exception", t1 \o <<Throw("Slides.batchUpdate", request)>>,
                   Append(fs, named), c)
    ELSE
    LET t2 == t1 \o <<Call("Slides.batchUpdate", request, Undefined),
                      Call("getAs", <<presentationBlobID, Str(<<"application/pdf">>)>>,
                           Undefined)>>
        id == Str(FileId(Len(fs) + 2))
        pdf == File(updated.name \o <<".pdf">>, folderId.s, "application/pdf",
                    updated.content)
    IN
    IF fault = "createFile"
    THEN Generated("Exception", t2 \o <<Throw("createFile", <<folderId>>)>>,
                   Append(fs, updated), c)
    ELSE
    LET t3 == t2 \o <<Call("createFile", <<folderId>>, id)>>
        created == [c EXCEPT !.certificateID = id]
        flag == Bool(c.deletePresentation)
        trashed == SetTrashed(updated, c.deletePresentation)
        message == Str(ToChars(c.certificateName) \o <<" successfully created">>)
        fb == ShowFeedback(message, fault)
    IN
    IF fault = "setTrashed"
    THEN Generated("Exception", t3 \o <<Throw("setTrashed", <<presentationBlobID, flag>>)>>,
                   fs \o <<updated, pdf>>, created)
    ELSE Generated(fb.err,
                   t3 \o <<Call("setTrashed", <<presentationBlobID, flag>>, Undefined)>>
                      \o fb.trace,
                   fs \o <<trashed, pdf>>, created)

----------------------------------------------------------------------------
(* The spreadsheet service *)

\* The one spreadsheet and sheet that exist; columns of the sheet.
TheSpreadsheetID == Str(<<"S", "1">>)
TheSheetName == Str(<<"Roster">>)
SheetMaxColumns == 4

Max(S) == CHOOSE x \in S : \A y \in S : y <= x

\* Range.getDataRange: from A1 to the last row and column holding a value.
LastRow(g) ==
    Max({1} \cup {r \in 1..Len(g) : \E j \in 1..SheetMaxColumns : g[r][j] # EmptyString})
LastColumn(g) ==
    Max({1} \cup {j \in 1..SheetMaxColumns : \E r \in 1..Len(g) : g[r][j] # EmptyString})
DataRangeValues(g) ==
    [r \in 1..LastRow(g) |-> SubSeq(g[r], 1, LastColumn(g))]

\* arr[i] for a 0-based i: undefined outside the array.
At(arr, i) == IF i >= 0 /\ i < Len(arr) THEN arr[i + 1] ELSE Undefined

\* Range.setValues over rows 2..k+1, columns 1..w: undefined cells are
\* written empty; rows the sheet does not yet show are added.
SetValues(g, rows, w) ==
    [r \in 1..Max({Len(g), Len(rows) + 1}) |->
        [j \in 1..SheetMaxColumns |->
            IF r >= 2 /\ r <= Len(rows) + 1 /\ j <= w
            THEN (IF rows[r - 1][j].t = "undefined" THEN EmptyString
                  ELSE rows[r - 1][j])
            ELSE IF r <= Len(g) THEN g[r][j] ELSE EmptyString]]

\* SpreadsheetApp.openById(id).getSheetByName(name): openById throws on an
\* unknown id; getSheetByName returns null for an unknown name, and the
\* method call on it is a TypeError.
OpenSheet(id, name) ==
    IF id # TheSpreadsheetID
    THEN Outcome("Exception", <<Throw("SpreadsheetApp.openById", <<id>>)>>)
    ELSE IF name # TheSheetName
    THEN Outcome("TypeError", <<Call("SpreadsheetApp.openById", <<id>>, id),
                                Call("getSheetByName", <<name>>, Undefined)>>)
    ELSE Outcome("ok", <<Call("SpreadsheetApp.openById", <<id>>, id),
                         Call("getSheetByName", <<name>>, name)>>)

----------------------------------------------------------------------------
(* class BatchProcessor, CertificateApp.js:217-361 *)

Loaded(e, tr, us) == [err |-> e, trace |-> tr, users |-> us]

PushReplacing(us, u) == <<u>>

\* _users.push(user)
Push(us, u) == Append(us, u)

AbortsNever(e) == FALSE

\* An exception thrown in a forEach callback ends the loop and the handler.
Aborts(e) == e # "ok"

\* data.forEach(row => ...), CertificateApp.js:305-311
RECURSIVE LoadRows(_, _, _, _, _)
LoadRows(data, namesColumn, emailsColumn, certificatesIDColumn, us) ==
    IF data = <<>> THEN Loaded("ok", <<>>, us)
    ELSE
    LET row == Head(data)
        name == At(row, namesColumn)
        email == At(row, emailsColumn)
        certificateID == At(row, certificatesIDColumn)
    IN  IF ~Truthy(name) \/ ~Truthy(email)
        THEN LoadRows(Tail(data), namesColumn, emailsColumn, certificatesIDColumn, us)
        ELSE IF ~CanToString(certificateID)
        THEN Loaded("TypeError", <<>>, us)
        ELSE LoadRows(Tail(data), namesColumn, emailsColumn, certificatesIDColumn,
                      Push(us, SetCertificateID(
                                  SetEmail(SetName(NewUser, ToStringTrim(name)),
                                           ToStringTrim(email)),
                                  ToStringTrim(certificateID))))

GetUsersFromSheet(us, g) ==
    LET sheet == OpenSheet(_spreadsheetID, _sheetName)
        values == DataRangeValues(g)
        headers == Head(values)
        data == Tail(values)
        rows == LoadRows(data,
                         IndexOf(headers, _namesColumnHeader),
                         IndexOf(headers, _emailsColumnHeader),
                         IndexOf(headers, _certificatesIDColumnHeader), us)
    IN  IF sheet.err # "ok" THEN Loaded(sheet.err, sheet.trace, us)
        ELSE Loaded(rows.err,
                    sheet.trace \o <<Call("getDataRange.getValues", <<>>, Undefined)>>,
                    rows.users)

BuildRowOneBased(u, namesColumn, emailsColumn, certificatesIDColumn) ==
    [j \in 1..(Max({namesColumn, emailsColumn, certificatesIDColumn}) + 1) |->
        IF j = certificatesIDColumn THEN u.certificateID
        ELSE IF j = emailsColumn THEN u.email
        ELSE IF j = namesColumn THEN u.name
        ELSE Undefined]

\* let row = []; row[namesColumn] = ...; row[emailsColumn] = ...;
\* row[certificatesIDColumn] = ... : a later assignment to the same index
\* wins, an index of -1 sets a property and no element, and the elements not
\* assigned are holes.
BuildRow(u, namesColumn, emailsColumn, certificatesIDColumn) ==
    [j \in 1..(Max({namesColumn, emailsColumn, certificatesIDColumn}) + 1) |->
        IF j - 1 = certificatesIDColumn THEN u.certificateID
        ELSE IF j - 1 = emailsColumn THEN u.email
        ELSE IF j - 1 = namesColumn THEN u.name
        ELSE Undefined]

RECURSIVE Flatten(_)
Flatten(rows) == IF rows = <<>> THEN <<>> ELSE Head(rows) \o Flatten(Tail(rows))

Saved(e, tr, g) == [err |-> e, trace |-> tr, grid |-> g]

SaveUsersToSheet(us, g) ==
    LET sheet == OpenSheet(_spreadsheetID, _sheetName)
        headers == g[1]
        namesColumn == IndexOf(headers, _namesColumnHeader)
        emailsColumn == IndexOf(headers, _emailsColumnHeader)
        certificatesIDColumn == IndexOf(headers, _certificatesIDColumnHeader)
        rows == [i \in 1..Len(us) |->
                    BuildRow(us[i], namesColumn, emailsColumn, certificatesIDColumn)]
        t1 == sheet.trace
              \o <<Call("getRange.getValues",
                        <<Num(1), Num(1), Num(1), Num(SheetMaxColumns)>>, Undefined)>>
    IN
    IF sheet.err # "ok" THEN Saved(sheet.err, sheet.trace, g)
    ELSE IF rows = <<>> THEN Saved("TypeError", t1, g)      \* rows[0].length
    ELSE
    LET width == Len(rows[1])
        range == <<Num(2), Num(1), Num(Len(rows)), Num(width)>>
    IN  IF width < 1                   \* a range has at least one column
        THEN Saved("Exception", t1 \o <<Throw("getRange", range)>>, g)
        ELSE Saved("ok",
                   t1 \o <<Call("getRange", range, Undefined),
                           Call("setValues", Flatten(rows), Undefined)>>,
                   SetValues(g, rows, width))

Created(e, tr, fs, us) == [err |-> e, trace |-> tr, files |-> fs, users |-> us]

\* _users.forEach(user => ...), CertificateApp.js:341-347, from the i-th user
\* on; fault = <<k, call>> makes that service call fail in the k-th run.
RECURSIVE CreateFrom(_, _, _, _, _)
CreateFrom(i, us, fs, tr, fault) ==
    IF i > Len(us) THEN Created("ok", tr, fs, us)
    ELSE
    LET name == us[i].name
        cert == DeletePresentation(
                    SetPlaceholderReplacement(
                        SetCertificateName(NewCertificate,
                                           Str(<<"Certificate: ">> \o ToChars(name))),
                        name),
                    _deletePresentations)
        run == CreateCertificate(cert, fs, IF fault[1] = i THEN fault[2] ELSE "none")
    IN  IF Aborts(run.err)
        THEN Created(run.err, tr \o run.trace, run.files, us)
        ELSE CreateFrom(i + 1,
                        [us EXCEPT ![i] = SetCertificateID(@, GetCertificateID(run.certificate))],
                        run.files, tr \o run.trace, fault)

CreateAllCertificatesFromSecond(us, fs, fault) == CreateFrom(2, us, fs, <<>>, fault)

CreateAllCertificates(us, fs, fault) == CreateFrom(1, us, fs, <<>>, fault)

\* _users.forEach(user => user.sendEmail(params)), CertificateApp.js:356-358
RECURSIVE SendFrom(_, _, _, _, _, _)
SendFrom(i, us, params, fs, tr, fault) ==
    IF i > Len(us) THEN Outcome("ok", tr)
    ELSE
    LET sent == SendEmail(us[i], params, fs, IF fault[1] = i THEN fault[2] ELSE "none")
    IN  IF Aborts(sent.err) THEN Outcome(sent.err, tr \o sent.trace)
        ELSE SendFrom(i + 1, us, params, fs, tr \o sent.trace, fault)

SendEmails(us, params, fs, fault) == SendFrom(1, us, params, fs, <<>>, fault)

----------------------------------------------------------------------------
(* Bounds and inputs *)

MaxDataRows == 2        \* data rows of the sheet at the start
MaxUsers == 2           \* getUsersFromSheet runs while _users stays this short
MaxFiles == 7           \* certificates are created while Drive stays this small

NameHeader == Str(<<"Name">>)
EmailHeader == Str(<<"Email">>)
CertificateHeader == Str(<<"Certificate ID">>)
OtherHeader == Str(<<"Phone">>)

HeaderRow == <<NameHeader, EmailHeader, CertificateHeader, EmptyString>>

\* Rows a roster holds: plain, padded with white space and carrying the id of a
\* stored certificate, without an email, with numbers for cells, without a name.
RowPool ==
    << <<Str(<<"A", "n", "n">>), Str(<<"a", "@", "x">>), EmptyString, EmptyString>>,
       <<Str(<<"\t", "B", "o", " ">>), Str(<<"b", "@", "x", "\n">>),
         Str(<<" ", "F", "3">>), EmptyString>>,
       <<Str(<<"C", "y">>), EmptyString, EmptyString, EmptyString>>,
       <<Num(7), Str(<<"n", "@", "x">>), Num(0), EmptyString>>,
       <<Num(0), Str(<<"z", "@", "x">>), Str(<<"F", "9">>), EmptyString>> >>

\* The rows at the given places of RowPool, in that order.
RECURSIVE RowsAt(_, _)
RowsAt(i, places) ==
    IF i > Len(RowPool) THEN <<>>
    ELSE (IF i \in places THEN <<RowPool[i]>> ELSE <<>>) \o RowsAt(i + 1, places)

Sheets ==
    {<<HeaderRow>> \o RowsAt(1, places) :
        places \in {P \in SUBSET (1..Len(RowPool)) : Cardinality(P) <= MaxDataRows}}

JsonArgs(j) == <<Bool(j.defined), j.name, j.email, j.certificateID>>
Json(name, email, certificateID) ==
    [defined |-> TRUE, name |-> name, email |-> email, certificateID |-> certificateID]
NoJson ==
    [defined |-> FALSE, name |-> Undefined, email |-> Undefined,
     certificateID |-> Undefined]

Ann == Str(<<"A", "n", "n">>)
AnnEmail == Str(<<"a", "@", "x">>)
StoredCertificate == Str(<<"F", "3">>)
NoSuchFile == Str(<<"F", "9">>)

\* null; a mapping without certificateID; one with it; an empty mapping.
JsonPool ==
    {NoJson, Json(Ann, AnnEmail, Undefined), Json(Ann, AnnEmail, StoredCertificate),
     Json(Undefined, Undefined, Undefined)}

Params(senderName, subject, htmlBody) ==
    [defined |-> TRUE, senderName |-> senderName, subject |-> subject,
     htmlBody |-> htmlBody]
NoParams ==
    [defined |-> FALSE, senderName |-> Undefined, subject |-> Undefined,
     htmlBody |-> Undefined]

\* No argument; the README's emailData of empty strings; a caller's own text.
ParamsPool ==
    {NoParams,
     Params(EmptyString, EmptyString, EmptyString),
     Params(Str(<<"Team">>), Str(<<"Your certificate">>), Undefined)}

ParamsArgs(p) == <<Bool(p.defined), p.senderName, p.subject, p.htmlBody>>

NoFault == <<0, "none">>
CreateFaults == {"DriveApp.getFileById", "Slides.batchUpdate", "createFile", "toast"}
SendFaults == {"MailApp.sendEmail", "toast"}
FaultsAt(n, calls) == {NoFault} \cup {<<i, c>> : i \in 1..n, c \in calls}

Ran(name, target, args) == [name |-> name, target |-> target, args |-> args]

----------------------------------------------------------------------------
(* The state after the README's Setup, src/unnamed/part_000:12-24 *)

\* The text of the template's slide: "Certificate of {{NAME}}".
CertificateOf == <<"C", "e", "r", "t", "i", "f", "i", "c",
                  "a", "t", "e", " ", "o", "f", " ">>
TemplateText == CertificateOf \o <<"{", "{", "N", "A", "M", "E", "}", "}">>

\* Placeholders: the Setup's, and one in a third letter case.
PlaceholderName == Str(<<"{", "{", "n", "a", "m", "e", "}", "}">>)
PlaceholderMixed == Str(<<"{", "{", "N", "a", "m", "e", "}", "}">>)

DriveAtStart ==
    << File(<<"Certificates">>, <<"root">>, "folder", <<>>),
       File(<<"Template">>, <<"root">>, "application/vnd.google-apps.presentation",
            TemplateText),
       File(<<"Certificate: Bo.pdf">>, FileId(1), "application/pdf",
            CertificateOf \o <<"B", "o">>) >>

Setup ==
    /\ BASE_PRESENTATION_ID = Str(FileId(2))
    /\ DESTINATION_FOLDER_ID = Str(FileId(1))
    /\ PLACEHOLDER = PlaceholderName
    /\ files = DriveAtStart
    /\ user = [i \in 1..2 |-> NewUser]
    /\ certificate = NewCertificate
    /\ _users = <<>>
    /\ _spreadsheetID = TheSpreadsheetID
    /\ _sheetName = TheSheetName
    /\ _namesColumnHeader = NameHeader
    /\ _emailsColumnHeader = EmailHeader
    /\ _certificatesIDColumnHeader = CertificateHeader
    /\ _deletePresentations = TRUE
    /\ op = Ran("newBatchProcessor", 0, <<>>)
    /\ err = "ok"
    /\ trace = <<>>

Roster(places) == <<HeaderRow>> \o RowsAt(1, places)

\* An empty roster; one of two valid rows, the second with a stored
\* certificate; one whose first row has no email.
BatchSheets == {Roster({}), Roster({1, 2}), Roster({3, 4})}

Init == Setup /\ grid \in BatchSheets
InitSheet == Setup /\ grid \in Sheets
InitOne == Setup /\ grid = Roster({1, 2})

----------------------------------------------------------------------------
(* BatchProcessor's methods *)

Config(name, arg) ==
    /\ op' = Ran(name, 0, <<arg>>)
    /\ err' = "ok"
    /\ trace' = <<>>
    /\ UNCHANGED <<moduleVars, files, grid, user, certificate, _users>>

SetSpreadsheetID(spreadsheetID) ==
    /\ _spreadsheetID' = spreadsheetID
    /\ Config("setSpreadsheetID", spreadsheetID)
    /\ UNCHANGED <<_sheetName, _namesColumnHeader, _emailsColumnHeader,
                   _certificatesIDColumnHeader, _deletePresentations>>

SetSheetName(sheetName) ==
    /\ _sheetName' = sheetName
    /\ Config("setSheetName", sheetName)
    /\ UNCHANGED <<_spreadsheetID, _namesColumnHeader, _emailsColumnHeader,
                   _certificatesIDColumnHeader, _deletePresentations>>

SetNamesColumnHeader(namesColumnHeader) ==
    /\ _namesColumnHeader' = namesColumnHeader
    /\ Config("setNamesColumnHeader", namesColumnHeader)
    /\ UNCHANGED <<_spreadsheetID, _sheetName, _emailsColumnHeader,
                   _certificatesIDColumnHeader, _deletePresentations>>

SetEmailsColumnHeader(emailsColumnHeader) ==
    /\ _emailsColumnHeader' = emailsColumnHeader
    /\ Config("setEmailsColumnHeader", emailsColumnHeader)
    /\ UNCHANGED <<_spreadsheetID, _sheetName, _namesColumnHeader,
                   _certificatesIDColumnHeader, _deletePresentations>>

SetCertificatesIDColumnHeader(certificatesIDColumnHeader) ==
    /\ _certificatesIDColumnHeader' = certificatesIDColumnHeader
    /\ Config("setCertificatesIDColumnHeader", certificatesIDColumnHeader)
    /\ UNCHANGED <<_spreadsheetID, _sheetName, _namesColumnHeader,
                   _emailsColumnHeader, _deletePresentations>>

DeletePresentations(deletePresentations) ==
    /\ _deletePresentations' = deletePresentations
    /\ Config("deletePresentations", Bool(deletePresentations))
    /\ UNCHANGED <<_spreadsheetID, _sheetName, _namesColumnHeader,
                   _emailsColumnHeader, _certificatesIDColumnHeader>>

DoGetUsersFromSheet ==
    LET r == GetUsersFromSheet(_users, grid)
    IN  /\ Len(r.users) <= MaxUsers
        /\ _users' = r.users
        /\ op' = Ran("getUsersFromSheet", 0, <<>>)
        /\ err' = r.err
        /\ trace' = r.trace
        /\ UNCHANGED <<moduleVars, configVars, files, grid, user, certificate>>

DoSaveUsersToSheet ==
    LET r == SaveUsersToSheet(_users, grid)
    IN  /\ grid' = r.grid
        /\ op' = Ran("saveUsersToSheet", 0, <<>>)
        /\ err' = r.err
        /\ trace' = r.trace
        /\ UNCHANGED <<moduleVars, configVars, files, user, certificate, _users>>

DoCreateAllCertificates(fault) ==
    LET r == CreateAllCertificates(_users, files, fault)
    IN  /\ Len(files) + 2 * Len(_users) <= MaxFiles
        /\ _users' = r.users
        /\ files' = r.files
        /\ op' = Ran("createAllCertificates", 0, <<>>)
        /\ err' = r.err
        /\ trace' = r.trace
        /\ UNCHANGED <<moduleVars, configVars, grid, user, certificate>>

DoSendEmails(params, fault) ==
    LET r == SendEmails(_users, params, files, fault)
    IN  /\ op' = Ran("sendEmails", 0, ParamsArgs(params))
        /\ err' = r.err
        /\ trace' = r.trace
        /\ UNCHANGED <<moduleVars, configVars, files, grid, user, certificate, _users>>

AppInit(basePresentationID, destinationFolderID, placeholder) ==
    /\ BASE_PRESENTATION_ID' = basePresentationID
    /\ DESTINATION_FOLDER_ID' = destinationFolderID
    /\ PLACEHOLDER' = placeholder
    /\ op' = Ran("init", 0, <<basePresentationID, destinationFolderID, placeholder>>)
    /\ err' = "ok"
    /\ trace' = <<>>
    /\ UNCHANGED <<configVars, files, grid, user, certificate, _users>>

----------------------------------------------------------------------------
(* User's methods, on the standalone users *)

UserOp(name, i, args, u, r) ==
    /\ user' = [user EXCEPT ![i] = u]
    /\ op' = Ran(name, i, args)
    /\ err' = r.err
    /\ trace' = r.trace
    /\ UNCHANGED <<moduleVars, configVars, files, grid, certificate, _users>>

UserSetName(i, name) ==
    UserOp("setName", i, <<name>>, SetName(user[i], name), Outcome("ok", <<>>))
UserSetEmail(i, email) ==
    UserOp("setEmail", i, <<email>>, SetEmail(user[i], email), Outcome("ok", <<>>))
UserSetCertificateID(i, certificateID) ==
    UserOp("setCertificateID", i, <<certificateID>>,
           SetCertificateID(user[i], certificateID), Outcome("ok", <<>>))
\* op.args holds the mapping toJSON returned.
UserToJSON(i) ==
    UserOp("toJSON", i, JsonArgs(ToJSON(user[i])), user[i], Outcome("ok", <<>>))
UserFromJSON(i, jsonObject) ==
    UserOp("fromJSON", i, JsonArgs(jsonObject), FromJSON(user[i], jsonObject),
           Outcome("ok", <<>>))
UserSendEmail(i, params, fault) ==
    UserOp("sendEmail", i, ParamsArgs(params), user[i],
           SendEmail(user[i], params, files, fault))

----------------------------------------------------------------------------
(* Certificate's methods, on the standalone certificate *)

CertOp(name, args, c, fs, e, tr) ==
    /\ certificate' = c
    /\ files' = fs
    /\ op' = Ran(name, 0, args)
    /\ err' = e
    /\ trace' = tr
    /\ UNCHANGED <<moduleVars, configVars, grid, user, _users>>

CertNew == CertOp("newCertificate", <<>>, NewCertificate, files, "ok", <<>>)
CertSetPlaceholderReplacement(text) ==
    CertOp("setPlaceholderReplacement", <<text>>,
           SetPlaceholderReplacement(certificate, text), files, "ok", <<>>)
CertSetCertificateName(name) ==
    CertOp("setCertificateName", <<name>>,
           SetCertificateName(certificate, name), files, "ok", <<>>)
CertDeletePresentation(flag) ==
    CertOp("deletePresentation", <<Bool(flag)>>,
           DeletePresentation(certificate, flag), files, "ok", <<>>)
CertCreateCertificate(fault) ==
    LET r == CreateCertificate(certificate, files, fault)
    IN  /\ Len(files) + 2 <= MaxFiles
        /\ CertOp("createCertificate", <<>>, r.certificate, r.files, r.err, r.trace)

----------------------------------------------------------------------------
(* Specifications *)

HeaderSetters ==
    \/ \E h \in {NameHeader, EmailHeader} : SetNamesColumnHeader(h)
    \/ SetEmailsColumnHeader(EmailHeader)
    \/ \E h \in {CertificateHeader, OtherHeader} : SetCertificatesIDColumnHeader(h)

\* The BatchProcessor, every service call succeeding that can.
Next ==
    \/ HeaderSetters
    \/ \E b \in BOOLEAN : DeletePresentations(b)
    \/ DoGetUsersFromSheet
    \/ DoSaveUsersToSheet
    \/ DoCreateAllCertificates(NoFault)
    \/ \E p \in ParamsPool : DoSendEmails(p, NoFault)

Spec == Init /\ [][Next]_vars

\* The roster: reading and writing the sheet under every header setting.
NextSheet ==
    \/ \E h \in {NameHeader, EmailHeader, OtherHeader} : SetNamesColumnHeader(h)
    \/ \E h \in {EmailHeader, OtherHeader} : SetEmailsColumnHeader(h)
    \/ \E h \in {CertificateHeader, OtherHeader} : SetCertificatesIDColumnHeader(h)
    \/ DoGetUsersFromSheet
    \/ DoSaveUsersToSheet

SpecSheet == InitSheet /\ [][NextSheet]_vars

\* The batch loops with a service call failing in one of the runs, or with
\* the spreadsheet or the sheet not there.
NextFault ==
    \/ \E id \in {TheSpreadsheetID, EmptyString} : SetSpreadsheetID(id)
    \/ \E name \in {TheSheetName, EmptyString} : SetSheetName(name)
    \/ \E b \in BOOLEAN : DeletePresentations(b)
    \/ DoGetUsersFromSheet
    \/ DoSaveUsersToSheet
    \/ \E f \in FaultsAt(Len(_users), CreateFaults) : DoCreateAllCertificates(f)
    \/ \E p \in {NoParams}, f \in FaultsAt(Len(_users), SendFaults) : DoSendEmails(p, f)

SpecFault == InitOne /\ [][NextFault]_vars

\* User objects, alone and in a loaded BatchProcessor.
NextUser ==
    \/ \E i \in 1..2, v \in {Ann, EmptyString} : UserSetName(i, v)
    \/ \E i \in 1..2 : UserSetEmail(i, AnnEmail)
    \/ \E i \in 1..2, v \in {EmptyString, StoredCertificate, NoSuchFile} :
          UserSetCertificateID(i, v)
    \/ \E i \in 1..2 : UserToJSON(i)
    \/ \E i \in 1..2, j \in JsonPool \cup {ToJSON(user[k]) : k \in 1..2} :
          UserFromJSON(i, j)
    \/ \E i \in 1..2, p \in ParamsPool, f \in {"none"} \cup SendFaults :
          UserSendEmail(i, p, f)
    \/ DoGetUsersFromSheet
    \/ \E p \in ParamsPool, f \in FaultsAt(Len(_users), SendFaults) : DoSendEmails(p, f)

SpecUser == InitOne /\ [][NextUser]_vars

\* A Certificate object.
NextCertificate ==
    \/ \E b \in {Str(FileId(2)), EmptyString},
          p \in {PlaceholderName, PlaceholderMixed} :
          AppInit(b, Str(FileId(1)), p)
    \/ CertNew
    \/ CertSetPlaceholderReplacement(Ann)
    \/ \E n \in {Str(<<"Certificate: ">> \o Ann.s), EmptyString} : CertSetCertificateName(n)
    \/ \E b \in BOOLEAN : CertDeletePresentation(b)
    \/ \E f \in {"none", "makeCopy", "Slides.batchUpdate", "setTrashed"} :
          CertCreateCertificate(f)

SpecCertificate == InitOne /\ [][NextCertificate]_vars

----------------------------------------------------------------------------
(* Properties *)

\* The column a configured header resolves to in a header row.
NamesColumn(headers) == IndexOf(headers, _namesColumnHeader)
EmailsColumn(headers) == IndexOf(headers, _emailsColumnHeader)
CertificatesIDColumn(headers) == IndexOf(headers, _certificatesIDColumnHeader)

\* The rows after the header row that getUsersFromSheet reads.
DataRows == Tail(DataRangeValues(grid))
ReadHeaders == Head(DataRangeValues(grid))

IsEmptyCell(v) == v = EmptyString \/ v = Undefined

Recipient(name, email, certificateID) ==
    [name |-> name, email |-> email, certificateID |-> certificateID]

\* C1's reading of a sheet: a Recipient for every data row whose name and
\* email cells are not empty, of the trimmed strings of its cells.
RECURSIVE RecipientsOfNonEmpty(_)
RecipientsOfNonEmpty(rows) ==
    IF rows = <<>> THEN <<>>
    ELSE
    LET row == Head(rows)
        name == At(row, NamesColumn(ReadHeaders))
        email == At(row, EmailsColumn(ReadHeaders))
        ref == At(row, CertificatesIDColumn(ReadHeaders))
    IN  (IF IsEmptyCell(name) \/ IsEmptyCell(email) THEN <<>>
         ELSE <<Recipient(Str(Trim(ToChars(name))), Str(Trim(ToChars(email))),
                          IF IsEmptyCell(ref) THEN EmptyString
                          ELSE Str(Trim(ToChars(ref))))>>)
        \o RecipientsOfNonEmpty(Tail(rows))

\* C1: one getUsersFromSheet on an empty list yields exactly one Recipient
\* per data row whose name and email cells are both non-empty, in row order,
\* with the trimmed string values of the resolved columns, and none for the
\* other rows.
C1_LoadYieldsValidRows ==
    [][(op'.name = "getUsersFromSheet" /\ _users = <<>>)
          => (err' = "ok" /\ _users' = RecipientsOfNonEmpty(DataRows))]_vars

\* The rows the code takes: name and email cells truthy.
TakenRows ==
    SelectSeq(DataRows, LAMBDA row : Truthy(At(row, NamesColumn(ReadHeaders)))
                                     /\ Truthy(At(row, EmailsColumn(ReadHeaders))))

\* C8: when the artifact column header matches no header cell, or the
\* artifact cell of a taken row is empty, getUsersFromSheet raises no error
\* and the Recipient built from the row has the empty string for its
\* artifact reference.
C8_MissingArtifactColumnLoadsEmpty ==
    [][op'.name = "getUsersFromSheet"
          => /\ err' = "ok"
             /\ Len(_users') = Len(_users) + Len(TakenRows)
             /\ \A i \in 1..Len(TakenRows) :
                   IsEmptyCell(At(TakenRows[i], CertificatesIDColumn(ReadHeaders)))
                      => _users'[Len(_users) + i].certificateID = EmptyString]_vars

\* The calls of the last handler that wrote to the sheet, and the i-th row
\* handed to setValues (the rows are recorded one after the other).
RangesIn(tr) == CallsOf(tr, "getRange")
WritesIn(tr) == CallsOf(tr, "setValues")
WrittenRow(tr, i) ==
    LET w == RangesIn(tr)[1].args[4].n
    IN  SubSeq(WritesIn(tr)[1].args, (i - 1) * w + 1, i * w)

\* One bulk write over rows 2..k+1 from column 1.
OneWriteOfRows(tr, k) ==
    /\ Len(WritesIn(tr)) = 1
    /\ Len(RangesIn(tr)) = 1
    /\ ~RangesIn(tr)[1].threw
    /\ SubSeq(RangesIn(tr)[1].args, 1, 3) = <<Num(2), Num(1), Num(k)>>
    /\ Len(WritesIn(tr)[1].args) = k * RangesIn(tr)[1].args[4].n

\* C3, as stated: saveUsersToSheet on k >= 1 recipients makes exactly one
\* bulk write over rows 2..k+1, whose i-th row carries the i-th recipient's
\* name, email and certificate id at the columns the three headers resolve
\* to in the sheet's header row at that time.
C3_PersistWritesAllFields ==
    [][(op'.name = "saveUsersToSheet" /\ Len(_users) >= 1)
          => /\ err' = "ok"
             /\ OneWriteOfRows(trace', Len(_users))
             /\ \A i \in 1..Len(_users) :
                   /\ At(WrittenRow(trace', i), NamesColumn(grid[1])) = _users[i].name
                   /\ At(WrittenRow(trace', i), EmailsColumn(grid[1])) = _users[i].email
                   /\ At(WrittenRow(trace', i), CertificatesIDColumn(grid[1]))
                         = _users[i].certificateID]_vars

\* C3, amended: with none of the three headers in the header row the range
\* has no column and nothing is written; otherwise there is exactly one bulk
\* write over rows 2..k+1, and the i-th row, and the sheet after it, carry at
\* each resolved column the field assigned to it last (name, then email, then
\* certificate id); a field whose header is not found is not written.
C3_PersistWritesResolvedFields ==
    [][(op'.name = "saveUsersToSheet" /\ Len(_users) >= 1)
          => LET n == NamesColumn(grid[1])
                 e == EmailsColumn(grid[1])
                 c == CertificatesIDColumn(grid[1])
             IN  IF n = -1 /\ e = -1 /\ c = -1
                 THEN err' # "ok" /\ WritesIn(trace') = <<>> /\ grid' = grid
                 ELSE
                 /\ err' = "ok"
                 /\ OneWriteOfRows(trace', Len(_users))
                 /\ grid'[1] = grid[1]
                 /\ \A i \in 1..Len(_users) :
                       LET row == WrittenRow(trace', i)
                       IN  /\ Len(row) = Max({n, e, c}) + 1
                           /\ c >= 0 => /\ At(row, c) = _users[i].certificateID
                                        /\ grid'[i + 1][c + 1] = _users[i].certificateID
                           /\ (e >= 0 /\ e # c)
                                 => /\ At(row, e) = _users[i].email
                                    /\ grid'[i + 1][e + 1] = _users[i].email
                           /\ (n >= 0 /\ n # e /\ n # c)
                                 => /\ At(row, n) = _users[i].name
                                    /\ grid'[i + 1][n + 1] = _users[i].name
                           /\ \A j \in 0..(Len(row) - 1) :
                                 j \notin {n, e, c} => At(row, j) = Undefined]_vars

\* Two recipients written after the certificate header was changed to one
\* the sheet does not have: the columns are those found at the write.
C3_Witness ==
    /\ op.name = "saveUsersToSheet"
    /\ err = "ok"
    /\ Len(_users) = 2
    /\ _certificatesIDColumnHeader = OtherHeader
    /\ Len(WritesIn(trace)) = 1
    /\ grid[3][1] = _users[2].name

PipelineCalls == {"makeCopy", "Slides.batchUpdate", "createFile", "setTrashed",
                  "DriveApp.getFolderById"}

\* C7: on an empty recipient list createAllCertificates, saveUsersToSheet and
\* sendEmails each return without error, run no pipeline, write nothing to
\* the sheet, send no mail, and leave the list empty.
C7_EmptyListIsNoOp ==
    (_users = <<>> /\ op.name \in {"createAllCertificates", "saveUsersToSheet", "sendEmails"})
       => /\ err = "ok"
          /\ \A i \in 1..Len(trace) :
                trace[i].call \notin PipelineCalls \cup {"setValues", "MailApp.sendEmail"}

\* The calls of one name made by the last handler that returned.
Returned(tr, name) == SelectSeq(tr, LAMBDA e : e.call = name /\ ~e.threw)

CertificateNameOf(u) == Str(<<"Certificate: ">> \o ToChars(u.name))

\* C2: when no service call fails, createAllCertificates on k recipients
\* runs the pipeline exactly k times, in list order, the i-th run named
\* "Certificate: " + name, replacing the placeholder by the name and trashing
\* the copy as the processor's flag says, and leaves the i-th recipient with
\* the id of the file the i-th run stored, whatever id it had.
C2_OnePipelinePerRecipient ==
    [][(op'.name = "createAllCertificates" /\ err' = "ok")
          => /\ Len(_users') = Len(_users)
             /\ \A c \in PipelineCalls \cup {"DriveApp.getFileById", "moveTo", "setName", "getAs"} :
                   Len(CallsOf(trace', c)) = Len(_users)
             /\ \A i \in 1..Len(_users) :
                   /\ Returned(trace', "setName")[i].args[2] = CertificateNameOf(_users[i])
                   /\ Returned(trace', "Slides.batchUpdate")[i].args[1] = _users[i].name
                   /\ Returned(trace', "setTrashed")[i].args[2] = Bool(_deletePresentations)
                   /\ _users'[i].certificateID = Returned(trace', "createFile")[i].ret
                   /\ _users'[i].certificateID # Returned(trace', "makeCopy")[i].ret
                   /\ IsFileId(files', _users'[i].certificateID)
                   /\ ~IsFileId(files, _users'[i].certificateID)
                   /\ _users'[i].name = _users[i].name
                   /\ _users'[i].email = _users[i].email]_vars

\* Two recipients, the second loaded with the id of a stored certificate,
\* now both with the ids of the files just created.
C2_Witness ==
    /\ op.name = "createAllCertificates"
    /\ err = "ok"
    /\ Len(_users) = 2
    /\ Len(Returned(trace, "createFile")) = 2
    /\ _users[1].name = Ann
    /\ _users[2].certificateID = Returned(trace, "createFile")[2].ret
    /\ _users[2].certificateID # StoredCertificate
    /\ grid[3][3] = Str(<<" ", "F", "3">>)

\* The recipients one getUsersFromSheet builds from the sheet as it is.
RecipientsOfTaken ==
    [i \in 1..Len(TakenRows) |->
        Recipient(ToStringTrim(At(TakenRows[i], NamesColumn(ReadHeaders))),
                  ToStringTrim(At(TakenRows[i], EmailsColumn(ReadHeaders))),
                  ToStringTrim(At(TakenRows[i], CertificatesIDColumn(ReadHeaders))))]

\* C10: getUsersFromSheet appends the sheet's recipients to the list and
\* never resets it, so that n calls on an unchanged sheet leave its k
\* recipients n times over; no other operation adds or removes a recipient;
\* and createAllCertificates, saveUsersToSheet and sendEmails then work on
\* every entry of the longer list.
C10_LoadAppends ==
    [][/\ (op'.name = "getUsersFromSheet" /\ err' = "ok")
             => _users' = _users \o RecipientsOfTaken
       /\ (op'.name = "getUsersFromSheet" /\ err' # "ok")
             => _users' = _users
       /\ op'.name # "getUsersFromSheet"
             => /\ Len(_users') = Len(_users)
                /\ \A i \in 1..Len(_users) :
                      /\ _users'[i].name = _users[i].name
                      /\ _users'[i].email = _users[i].email
       /\ (op'.name = "createAllCertificates" /\ err' = "ok")
             => Len(Returned(trace', "createFile")) = Len(_users)
       /\ (op'.name = "saveUsersToSheet" /\ err' = "ok")
             => RangesIn(trace')[1].args[3] = Num(Len(_users))
       /\ op'.name = "sendEmails"
             => Len(CallsOf(trace', "MailApp.sendEmail")) <= Len(_users)]_vars

\* The sheet's one recipient loaded twice, and a certificate made for each.
C10_Witness ==
    /\ op.name = "createAllCertificates"
    /\ err = "ok"
    /\ Len(_users) = 2
    /\ Len(TakenRows) = 1
    /\ _users[1].name = _users[2].name
    /\ _users[1].email = _users[2].email
    /\ Len(Returned(trace, "createFile")) = 2

\* A handler fails exactly when a service call of it threw, and the call
\* that threw is the last one it made.
FailsFast(e, tr) ==
    /\ e # "ok" <=> \E i \in 1..Len(tr) : tr[i].threw
    /\ \A i \in 1..Len(tr) : tr[i].threw => i = Len(tr)

\* The recipients sendEmail does not skip.
WithCertificate(us) == SelectSeq(us, LAMBDA u : u.certificateID # EmptyString)

\* The mails of a trace are to the first recipients with a certificate, one
\* each, in order.
MailsToFirst(tr, us) ==
    LET mails == Returned(tr, "MailApp.sendEmail")
    IN  /\ Len(mails) <= Len(WithCertificate(us))
        /\ \A m \in 1..Len(mails) :
              /\ mails[m].args[2] = WithCertificate(us)[m].email
              /\ mails[m].args[5] = WithCertificate(us)[m].certificateID

\* C9: createAllCertificates fails fast and rolls nothing back: when a step
\* of the i-th run fails the failure reaches the caller, no step of a later
\* run is started, the recipients before i have the ids this call stored for
\* them, and recipient i and the later ones are as they were.  sendEmails
\* likewise: after the first failing send no later mail is sent, and the
\* earlier ones were sent.
C9_FailFastNoRollback ==
    [][/\ op'.name = "createAllCertificates"
             => /\ FailsFast(err', trace')
                /\ err' # "ok"
                      => LET i == Len(CallsOf(trace', "DriveApp.getFolderById"))
                         IN  /\ i \in 1..Len(_users)
                             /\ Len(Returned(trace', "createFile")) \in {i - 1, i}
                             /\ Len(Returned(trace', "toast")) = i - 1
                             /\ Len(_users') = Len(_users)
                             /\ \A j \in 1..(i - 1) :
                                   /\ _users'[j].certificateID =
                                         Returned(trace', "createFile")[j].ret
                                   /\ _users'[j].certificateID # _users[j].certificateID
                             /\ \A j \in i..Len(_users) : _users'[j] = _users[j]
       /\ op'.name = "sendEmails"
             => /\ FailsFast(err', trace')
                /\ MailsToFirst(trace', _users)
                /\ err' = "ok"
                      => Len(Returned(trace', "MailApp.sendEmail"))
                            = Len(WithCertificate(_users))
                /\ _users' = _users]_vars

\* The second of two runs failed after the first stored its file: the
\* first recipient has the new id, the second still the id from the sheet.
C9_Witness ==
    /\ op.name = "createAllCertificates"
    /\ err # "ok"
    /\ Len(_users) = 2
    /\ Len(CallsOf(trace, "DriveApp.getFolderById")) = 2
    /\ _users[1].certificateID = Returned(trace, "createFile")[1].ret
    /\ _users[2].certificateID = StoredCertificate
    /\ Len(files) > Len(DriveAtStart) + 2

\* C4: sendEmail on a User whose certificate id is empty sends no mail,
\* looks up no file, shows no feedback and returns without error, whatever
\* the params; so sendEmails sends only to the recipients with a certificate
\* id, at most one mail for each entry.
C4_NoCertificateNoMail ==
    [][/\ (op'.name = "sendEmail" /\ user[op'.target].certificateID = EmptyString)
             => (err' = "ok" /\ trace' = <<>>)
       /\ op'.name = "sendEmails"
             => /\ MailsToFirst(trace', _users)
                /\ WithCertificate(_users) = <<>> => (err' = "ok" /\ trace' = <<>>)]_vars

\* Of two loaded recipients only the one with a certificate id was mailed,
\* under the caller's own subject.
C4_Witness ==
    /\ op.name = "sendEmails"
    /\ err = "ok"
    /\ Len(_users) = 2
    /\ _users[1].certificateID = EmptyString
    /\ Len(CallsOf(trace, "MailApp.sendEmail")) = 1
    /\ Len(CallsOf(trace, "DriveApp.getFileById")) = 1
    /\ trace[2].args[2] = _users[2].email
    /\ trace[2].args[3] = Str(<<"Your certificate">>)

\* C6: fromJSON of what toJSON gave for a User r leaves any User with r's
\* name, email and certificate id; fromJSON of a mapping with name and email
\* and no certificateID leaves the empty string for the certificate id.
C6_JsonRoundTrip ==
    [][op'.name = "fromJSON"
          => /\ \A k \in 1..2 :
                   op'.args = JsonArgs(ToJSON(user[k]))
                      => /\ user'[op'.target].name = user[k].name
                         /\ user'[op'.target].email = user[k].email
                         /\ user'[op'.target].certificateID = user[k].certificateID
             /\ (op'.args[1] = Bool(TRUE) /\ op'.args[4] = Undefined)
                   => /\ user'[op'.target].certificateID = EmptyString
                      /\ user'[op'.target].name = op'.args[2]
                      /\ user'[op'.target].email = op'.args[3]]_vars

\* The second User was read from the first one's mapping, certificate id
\* and all.
C6_Witness ==
    /\ op.name = "fromJSON"
    /\ op.target = 2
    /\ op.args = JsonArgs(ToJSON(user[1]))
    /\ user[2] = user[1]
    /\ user[1].name = Ann
    /\ user[1].certificateID = NoSuchFile

\* C5: after a createCertificate in which no step fails the copy of the
\* template is trashed exactly when deletePresentation is set, the stored
\* file never is, and getCertificateID gives the id of the stored file, not
\* of the copy.
C5_DiscardsTheCopyOnly ==
    [][(op'.name = "createCertificate" /\ err' = "ok")
          => LET copy == Returned(trace', "makeCopy")[1].ret
                 stored == Returned(trace', "createFile")[1].ret
             IN  /\ IsFileId(files', copy) /\ ~IsFileId(files, copy)
                 /\ IsFileId(files', stored) /\ ~IsFileId(files, stored)
                 /\ copy # stored
                 /\ files'[FileIndex(files', copy)].trashed = certificate.deletePresentation
                 /\ files'[FileIndex(files', copy)].mime
                       = files[FileIndex(files, BASE_PRESENTATION_ID)].mime
                 /\ ~files'[FileIndex(files', stored)].trashed
                 /\ files'[FileIndex(files', stored)].mime = "application/pdf"
                 /\ GetCertificateID(certificate') = stored
                 /\ SubSeq(files', 1, Len(files)) = files]_vars

\* A certificate made with deletePresentation set: the copy is in the trash,
\* the stored file is not.
C5_Witness ==
    /\ op.name = "createCertificate"
    /\ err = "ok"
    /\ certificate.deletePresentation
    /\ files[Len(files) - 1].trashed
    /\ ~files[Len(files)].trashed
    /\ GetCertificateID(certificate) = Str(FileId(Len(files)))

====
